---- MODULE Spec2Model ----
(***************************************************************************)
(* GentleAlertScheduler (src/main.py): the Scheduler class, the handlers   *)
(* of MainWindow that drive it, and the alert list of ConfigManager.       *)
(*                                                                         *)
(* Time.  An instant (QDateTime) is a natural number of sub-ticks.  A      *)
(* tick is the resolution of the "HH:mm:ss" time strings, a sub-tick the   *)
(* finer resolution of QDateTime.currentDateTime(); a day has TicksPerDay  *)
(* ticks.  A date (QDate) is a day number, day 0 being Monday 2024-01-01.  *)
(* A date or time STRING is the number it formats, or InvalidStr when it   *)
(* does not parse.                                                         *)
(***************************************************************************)
EXTENDS Integers, Sequences, FiniteSets, Bags, TLC

\* ---------------------------------------------------------------- bounds
TicksPerDay == 2
SubTicks == 2
MaxAlerts == 2
MaxTemp == 1
MaxOverlays == 2
MaxTime == 4
MaxQueued == 1
MaxStored == 4
MaxSnoozed == 2
NumScreens == 2
StartDay == 30
FarDays == 60
CalcDays == 33

\* ------------------------------------------------------------- constants
REPEAT_OPTION_NONE == "No Repeat"
REPEAT_OPTION_DAILY == "Daily"
REPEAT_OPTION_WEEKLY == "Weekly"
REPEAT_OPTION_MONTHLY == "Monthly"
REPEAT_OPTIONS ==
  {REPEAT_OPTION_NONE, REPEAT_OPTION_DAILY, REPEAT_OPTION_WEEKLY, REPEAT_OPTION_MONTHLY}
WEEKDAYS_ABBR == <<"Mon", "Tue", "Wed", "Thu", "Fri", "Sat", "Sun">>
DISPLAY_OPTION_MAIN == "Main"
DISPLAY_OPTION_ALL == "All"

\* A string that QDate.fromString / QTime.fromString rejects.
InvalidStr == 0 - 1
\* Python's None as the result of calculate_next_trigger.
None == 0 - 1
\* The alert_index trigger_alert takes for a temporary (delayed) alert.
TEMP_INDEX == 0 - 1
\* A regular alert record has no 'original_alert_index' key.
NoKey == 0 - 2

\* ---------------------------------------------------------- Qt date/time
SubTicksPerDay == TicksPerDay * SubTicks

\* QDateTime(date, time): time is a QTime, in sub-ticks since midnight.
QDateTime(date, time) == date * SubTicksPerDay + time

\* QDateTime.date() and QDateTime.time()
DateOf(dt) == dt \div SubTicksPerDay
TimeOf(dt) == dt % SubTicksPerDay

\* QTime.fromString(s, "HH:mm:ss"): whole ticks only; InvalidStr when invalid.
QTimeFromString(s) ==
  IF s \in 0..(TicksPerDay - 1) THEN s * SubTicks ELSE InvalidStr

\* QTime.toString("HH:mm:ss") drops what is finer than a tick.
QTimeToString(time) == time \div SubTicks

\* QDate.fromString(s, "yyyy-MM-dd") and QDate.toString
QDateFromString(s) == IF s >= 0 THEN s ELSE InvalidStr
QDateToString(date) == date

IsLeapYear(y) == (y % 4 = 0 /\ y % 100 # 0) \/ y % 400 = 0

\* QDate.daysInMonth() of the month m of year y
DaysInMonth(y, m) ==
  IF m = 2 THEN (IF IsLeapYear(y) THEN 29 ELSE 28)
  ELSE IF m \in {4, 6, 9, 11} THEN 30 ELSE 31

\* The month after (y, m), as trigger search steps to it.
NextMonth(ym) ==
  IF ym.month = 12 THEN [year |-> ym.year + 1, month |-> 1]
  ELSE [year |-> ym.year, month |-> ym.month + 1]

RECURSIVE YMDFrom(_, _)
YMDFrom(ym, rest) ==
  IF rest < DaysInMonth(ym.year, ym.month)
  THEN [year |-> ym.year, month |-> ym.month, day |-> rest + 1]
  ELSE YMDFrom(NextMonth(ym), rest - DaysInMonth(ym.year, ym.month))

\* QDate.year(), .month(), .day() of a day number.
YMD(date) == YMDFrom([year |-> 2024, month |-> 1], date)

RECURSIVE DaysBefore(_, _)
DaysBefore(ym, target) ==
  IF ym = target THEN 0
  ELSE DaysInMonth(ym.year, ym.month) + DaysBefore(NextMonth(ym), target)

\* QDate(y, m, d) as a day number (y >= 2024).
QDate(y, m, d) ==
  DaysBefore([year |-> 2024, month |-> 1], [year |-> y, month |-> m]) + d - 1

\* QDate.dayOfWeek(): Monday = 1 .. Sunday = 7; day 0 is a Monday.
DayOfWeek(date) == (date % 7) + 1

Min(a, b) == IF a <= b THEN a ELSE b
Max(a, b) == IF a >= b THEN a ELSE b

\* weekdays_map of calculate_next_trigger: abbreviation -> Qt weekday number.
TargetDaysOfWeek(weekdays) ==
  {i \in 1..7 : WEEKDAYS_ABBR[i] \in weekdays}

\* ------------------------------------------------ calculate_next_trigger
\* The weekly scan over seven days, from..6, instead of eight.
RECURSIVE WeeklyScanSevenDays(_, _, _, _, _, _)
WeeklyScanSevenDays(i, check_date, start_date, alert_time, targets, current_datetime) ==
  IF i >= 7 THEN None
  ELSE LET current_check_date == check_date + i
           potential_dt == QDateTime(current_check_date, alert_time)
       IN IF /\ DayOfWeek(current_check_date) \in targets
             /\ current_check_date >= start_date
             /\ potential_dt >= current_datetime
          THEN potential_dt
          ELSE WeeklyScanSevenDays(i + 1, check_date, start_date, alert_time,
                                   targets, current_datetime)

\* The weekly scan: the first i in from..7 whose date is a target day, not
\* before start_date, and whose instant is not before current_datetime.
RECURSIVE WeeklyScan(_, _, _, _, _, _)
WeeklyScan(i, check_date, start_date, alert_time, targets, current_datetime) ==
  IF i >= 8 THEN None
  ELSE LET current_check_date == check_date + i
           potential_dt == QDateTime(current_check_date, alert_time)
       IN IF /\ DayOfWeek(current_check_date) \in targets
             /\ current_check_date >= start_date
             /\ potential_dt >= current_datetime
          THEN potential_dt
          ELSE WeeklyScan(i + 1, check_date, start_date, alert_time, targets,
                          current_datetime)

\* The monthly scan that passes over a month without the day_of_month
\* instead of taking the month's last day.
RECURSIVE MonthlyScanExactDay(_, _, _, _, _, _, _)
MonthlyScanExactDay(n, ym, day_of_month, start_date, check_date, alert_time, current_datetime) ==
  IF n = 0 THEN None
  ELSE LET days_in_month == DaysInMonth(ym.year, ym.month)
           potential_trigger_date == QDate(ym.year, ym.month, day_of_month)
           potential_dt == QDateTime(potential_trigger_date, alert_time)
       IN IF /\ day_of_month <= days_in_month
             /\ potential_trigger_date >= start_date
             /\ potential_dt >= current_datetime
          THEN potential_dt
          ELSE MonthlyScanExactDay(n - 1, NextMonth(ym), day_of_month, start_date,
                                   check_date, alert_time, current_datetime)

\* The monthly scan: n iterations left, temp_check_date the month's first day.
RECURSIVE MonthlyScan(_, _, _, _, _, _, _)
MonthlyScan(n, ym, day_of_month, start_date, check_date, alert_time, current_datetime) ==
  IF n = 0 THEN None
  ELSE LET days_in_month == DaysInMonth(ym.year, ym.month)
           actual_day_to_check == Min(day_of_month, days_in_month)
           potential_trigger_date == QDate(ym.year, ym.month, actual_day_to_check)
           check_ymd == YMD(check_date)
           potential_dt == QDateTime(potential_trigger_date, alert_time)
       IN IF /\ potential_trigger_date >= start_date
             /\ potential_trigger_date >= QDate(check_ymd.year, check_ymd.month, 1)
             /\ potential_dt >= current_datetime
          THEN potential_dt
          ELSE MonthlyScan(n - 1, NextMonth(ym), day_of_month, start_date,
                           check_date, alert_time, current_datetime)

\* "No Repeat" without the test against current_datetime.
next_trigger_none_unchecked(current_datetime, start_date, alert_time) ==
  QDateTime(start_date, alert_time)

\* "No Repeat" that takes an instant equal to current_datetime as passed.
next_trigger_none_strict(current_datetime, start_date, alert_time) ==
  LET trigger_dt == QDateTime(start_date, alert_time)
  IN IF trigger_dt > current_datetime THEN trigger_dt ELSE None

\* "No Repeat": the instant of (start_date, alert_time) unless it has passed.
next_trigger_none(current_datetime, start_date, alert_time) ==
  LET trigger_dt == QDateTime(start_date, alert_time)
  IN IF trigger_dt >= current_datetime THEN trigger_dt ELSE None

\* "Daily" that starts from the date of current_datetime, not from check_date.
next_trigger_daily_from_today(current_datetime, check_date, alert_time) ==
  LET potential_dt == QDateTime(DateOf(current_datetime), alert_time)
  IN IF potential_dt >= current_datetime THEN potential_dt
     ELSE QDateTime(DateOf(current_datetime) + 1, alert_time)

\* "Daily" that takes alert_time on check_date as passed when it is equal to
\* current_datetime.
next_trigger_daily_strict(current_datetime, check_date, alert_time) ==
  LET potential_dt == QDateTime(check_date, alert_time)
  IN IF potential_dt > current_datetime THEN potential_dt
     ELSE QDateTime(check_date + 1, alert_time)

\* "Daily" that stays on check_date when alert_time has passed there.
next_trigger_daily_same_day(current_datetime, check_date, alert_time) ==
  QDateTime(check_date, alert_time)

\* "Daily": alert_time on check_date, or on the day after when that has passed.
next_trigger_daily(current_datetime, check_date, alert_time) ==
  LET potential_dt == QDateTime(check_date, alert_time)
  IN IF potential_dt >= current_datetime THEN potential_dt
     ELSE QDateTime(check_date + 1, alert_time)

calculate_next_trigger(current_datetime, alert_data) ==
  LET alert_time == QTimeFromString(alert_data.time)
      parsed_date == QDateFromString(alert_data.date)
      repeat_mode == alert_data.repeat
  IN
  IF alert_time = InvalidStr THEN None
  ELSE IF parsed_date = InvalidStr /\ repeat_mode = REPEAT_OPTION_NONE THEN None
  ELSE
    LET start_date ==
          IF parsed_date = InvalidStr THEN DateOf(current_datetime) ELSE parsed_date
        check_date == Max(DateOf(current_datetime), start_date)
    IN
    IF repeat_mode = REPEAT_OPTION_NONE THEN
      next_trigger_none(current_datetime, start_date, alert_time)
    ELSE IF repeat_mode = REPEAT_OPTION_DAILY THEN
      next_trigger_daily(current_datetime, check_date, alert_time)
    ELSE IF repeat_mode = REPEAT_OPTION_WEEKLY THEN
      LET target_days_of_week == TargetDaysOfWeek(alert_data.weekdays)
      IN IF target_days_of_week = {} THEN None
         ELSE WeeklyScan(0, check_date, start_date, alert_time,
                         target_days_of_week, current_datetime)
    ELSE IF repeat_mode = REPEAT_OPTION_MONTHLY THEN
      LET day_of_month == alert_data.day_of_month
          check_ymd == YMD(check_date)
      IN IF ~(1 <= day_of_month /\ day_of_month <= 31) THEN None
         ELSE MonthlyScan(25, [year |-> check_ymd.year, month |-> check_ymd.month],
                          day_of_month, start_date, check_date, alert_time,
                          current_datetime)
    ELSE None

\* ------------------------------------------------------------ the state
VARIABLES
  alerts,            \* ConfigManager.alerts: the list of alert dicts
  saved,             \* the list last written by ConfigManager.save_alerts
  alert_timers,      \* Scheduler.alert_timers: alert index -> QTimer
  temporary_timers,  \* Scheduler.temporary_timers: a bag of QTimers
  overlays,          \* MainWindow.overlays: a bag of TransparentOverlays
  dispatched,        \* timeouts sent but whose slot has not run yet
  dialog,            \* the open edit dialog: <<>> or <<[index, alert_data]>>
  running,           \* FALSE once exit_application has quit the event loop
  aborted,           \* an exception left __init__ or a slot: the process ended
  overflow_checking, \* whether the PyQt5 build raises OverflowError for an
                     \* int argument outside the range of a C int or wraps it
  now,               \* QDateTime.currentDateTime()
  next_trigger,      \* what the last direct call of calculate_next_trigger
                     \* returned
  last               \* the handler that ran last: its name, its argument, the
                     \* alert dicts it called show_alert_overlay with and, for
                     \* a removal or a delay, the objects as it found them

vars ==
  <<alerts, saved, alert_timers, temporary_timers, overlays, dispatched,
    dialog, running, aborted, overflow_checking, now, next_trigger, last>>

\* Indices are the source's, from 0; the list is a TLA+ sequence, from 1.
Indices(list) == 0..(Len(list) - 1)
At(list, index) == list[index + 1]

\* An overlay keeps the dict show_alert_overlay was given ('alert').  A
\* regular fire passes the live dict of the list, so the overlay sees later
\* writes to it: ref is then its index.  Every other caller passes a private
\* copy: ref is TEMP_INDEX and val holds the copy.
LiveItem(index) == [ref |-> index, val |-> <<>>]
CopyItem(alert_data) == [ref |-> TEMP_INDEX, val |-> <<alert_data>>]
OverlayAlert(item, list) == IF item.ref >= 0 THEN At(list, item.ref) ELSE item.val[1]

\* The handlers below are functions of the objects they read and write:
\*   m.alerts, m.saved, m.timers, m.temps, m.overlays as the variables, and
\*   m.shown, the alert dicts show_alert_overlay was called with, in order.
Machine ==
  [alerts |-> alerts, saved |-> saved, timers |-> alert_timers,
   temps |-> temporary_timers, overlays |-> overlays, shown |-> <<>>,
   checking |-> overflow_checking, raised |-> FALSE]

RECURSIVE SumCounts(_, _)
SumCounts(B, S) ==
  IF S = {} THEN 0
  ELSE LET x == CHOOSE y \in S : TRUE IN B[x] + SumCounts(B, S \ {x})

Copies(x, n) == IF n = 0 THEN EmptyBag ELSE [y \in {x} |-> n]

\* ------------------------------------------------------- ConfigManager
\* validate_alert: the known keys of a dict of alerts.json; a 'repeat' that is
\* not one of REPEAT_OPTIONS becomes "No Repeat".  Date and time strings are
\* taken as they are.
validate_alert(alert_dict) ==
  [enabled |-> alert_dict.enabled, date |-> alert_dict.date,
   time |-> alert_dict.time,
   repeat |-> IF alert_dict.repeat \in REPEAT_OPTIONS
              THEN alert_dict.repeat ELSE REPEAT_OPTION_NONE,
   weekdays |-> alert_dict.weekdays, day_of_month |-> alert_dict.day_of_month,
   text |-> alert_dict.text, display |-> alert_dict.display,
   original_alert_index |-> NoKey]

\* load_alerts: the validated dicts of the list in alerts.json.
load_alerts(file) == [k \in 1..Len(file) |-> validate_alert(file[k])]

save_alerts(m) == [m EXCEPT !.saved = m.alerts]

\* ----------------------------------------------------------- MainWindow
ScreensFor(alert_data) ==
  IF alert_data.display = DISPLAY_OPTION_ALL THEN NumScreens ELSE 1

\* One overlay per target screen, each keeping the dict it was given.
\* raises: the call raises before any overlay is kept.
show_alert_overlay(m, item, raises) ==
  LET alert_data == OverlayAlert(item, m.alerts)
      called == [m EXCEPT !.shown = Append(@, alert_data)]
  IN IF raises THEN called
     ELSE [called EXCEPT !.overlays = @ (+) Copies(item, ScreensFor(alert_data))]

stop_ongoing_alerts(m) == [m EXCEPT !.overlays = EmptyBag]

\* ------------------------------------------------------------ Scheduler
stop_alert_timer(m, alert_index) ==
  IF alert_index \in DOMAIN m.timers
  THEN [m EXCEPT !.timers = [k \in (DOMAIN m.timers) \ {alert_index} |-> m.timers[k]]]
  ELSE m

NoTimers == [k \in {} |-> TRUE]

\* stop_all_timers without its second loop: temporary_timers is left alone.
stop_all_timers_regular_only(m) == [m EXCEPT !.timers = NoTimers]

stop_all_timers(m) == [m EXCEPT !.timers = NoTimers, !.temps = EmptyBag]

\* schedule_alert_timer that leaves an alert without a next trigger as it is.
schedule_alert_timer_keeps_enabled(m, alert_index, t) ==
  LET m1 == stop_alert_timer(m, alert_index)
      alert_data == At(m1.alerts, alert_index)
      next_trigger_dt == calculate_next_trigger(t, alert_data)
  IN
  IF ~alert_data.enabled THEN m1
  ELSE IF next_trigger_dt = None THEN m1
  ELSE [m1 EXCEPT !.timers =
          (alert_index :> [fires_at |-> next_trigger_dt, data |-> alert_data,
                           active |-> TRUE]) @@ @]

\* schedule_alert_timer that disables every alert without a next trigger,
\* whatever its repeat mode.
schedule_alert_timer_disables_any(m, alert_index, t) ==
  LET m1 == stop_alert_timer(m, alert_index)
      alert_data == At(m1.alerts, alert_index)
      next_trigger_dt == calculate_next_trigger(t, alert_data)
  IN
  IF ~alert_data.enabled THEN m1
  ELSE IF QTimeFromString(alert_data.time) = InvalidStr THEN m1
  ELSE IF next_trigger_dt = None THEN
    save_alerts([m1 EXCEPT !.alerts[alert_index + 1].enabled = FALSE])
  ELSE [m1 EXCEPT !.timers =
          (alert_index :> [fires_at |-> next_trigger_dt, data |-> alert_data,
                           active |-> TRUE]) @@ @]

\* schedule_alert_timer that, when the index has a timer already, looks for
\* the occurrence after the one that timer is set for.
schedule_alert_timer_after_pending(m, alert_index, t) ==
  LET from == IF alert_index \in DOMAIN m.timers
              THEN Max(t, m.timers[alert_index].fires_at + 1) ELSE t
      m1 == stop_alert_timer(m, alert_index)
      alert_data == At(m1.alerts, alert_index)
      next_trigger_dt == calculate_next_trigger(from, alert_data)
  IN
  IF ~alert_data.enabled THEN m1
  ELSE IF QTimeFromString(alert_data.time) = InvalidStr THEN m1
  ELSE IF next_trigger_dt = None THEN
    IF alert_data.repeat = REPEAT_OPTION_NONE
    THEN save_alerts([m1 EXCEPT !.alerts[alert_index + 1].enabled = FALSE])
    ELSE m1
  ELSE [m1 EXCEPT !.timers =
          (alert_index :> [fires_at |-> next_trigger_dt, data |-> alert_data,
                           active |-> TRUE]) @@ @]

\* QTimer.start(int msec): the longest delay an int of C holds, 2^31 - 1 ms,
\* which is 24.855 days.
TIMER_MAX == (24855 * SubTicksPerDay) \div 1000

\* An int of Python taken as an int of C without a check of its range.
AsCInt(msec) == ((msec + TIMER_MAX + 1) % (2 * (TIMER_MAX + 1))) - (TIMER_MAX + 1)

\* timer.start(interval) with an interval above TIMER_MAX: a build that checks
\* the range raises OverflowError, which leaves the handler at once; one that
\* does not starts the timer with the wrapped value, and a QTimer started
\* with a negative interval never times out.
\* alert_data is the dict at alert_index of the list in every call the
\* program makes, so the write to the list is a write to alert_data.
schedule_alert_timer(m, alert_index, t) ==
  LET m1 == stop_alert_timer(m, alert_index)
      alert_data == At(m1.alerts, alert_index)
      next_trigger_dt == calculate_next_trigger(t, alert_data)
      interval == next_trigger_dt - t
  IN
  IF ~alert_data.enabled THEN m1
  ELSE IF QTimeFromString(alert_data.time) = InvalidStr THEN m1
  ELSE IF next_trigger_dt = None THEN
    IF /\ alert_data.repeat = REPEAT_OPTION_NONE
       /\ 0 <= alert_index /\ alert_index < Len(m1.alerts)
    THEN save_alerts([m1 EXCEPT !.alerts[alert_index + 1].enabled = FALSE])
    ELSE m1
  ELSE IF interval < 0 THEN m1
  ELSE IF interval > TIMER_MAX /\ m1.checking
  THEN [m1 EXCEPT !.raised = TRUE]
  ELSE [m1 EXCEPT !.timers =
          (alert_index :> [fires_at |-> t + AsCInt(interval), data |-> alert_data,
                           active |-> AsCInt(interval) >= 0]) @@ @]

_schedule_single_alert_instance(m, alert_data, t) ==
  LET date == QDateFromString(alert_data.date)
      time == QTimeFromString(alert_data.time)
      alert_datetime == QDateTime(date, time)
      interval == Max(0, alert_datetime - t)
  IN IF date = InvalidStr \/ time = InvalidStr THEN m
     ELSE [m EXCEPT !.temps =
             @ (+) SetToBag({[fires_at |-> t + interval, data |-> alert_data]})]

\* trigger_alert that works from the alert_data its timer was armed with:
\* it shows that copy and takes the repeat mode from it.
trigger_alert_from_snapshot(m, alert_data, alert_index, t, raises) ==
  IF alert_index = TEMP_INDEX
  THEN show_alert_overlay(m, CopyItem(alert_data), raises)
  ELSE IF ~(0 <= alert_index /\ alert_index < Len(m.alerts))
  THEN stop_alert_timer(m, alert_index)
  ELSE IF ~At(m.alerts, alert_index).enabled
  THEN stop_alert_timer(m, alert_index)
  ELSE
    LET m1 == show_alert_overlay(m, CopyItem(alert_data), raises)
    IN IF raises THEN m1
       ELSE IF alert_data.repeat = REPEAT_OPTION_NONE
       THEN save_alerts(stop_alert_timer(
              [m1 EXCEPT !.alerts[alert_index + 1].enabled = FALSE], alert_index))
       ELSE schedule_alert_timer(m1, alert_index, t)

\* trigger_alert without the test of the live 'enabled' flag.
trigger_alert_unchecked(m, alert_data, alert_index, t, raises) ==
  IF alert_index = TEMP_INDEX
  THEN show_alert_overlay(m, CopyItem(alert_data), raises)
  ELSE IF ~(0 <= alert_index /\ alert_index < Len(m.alerts))
  THEN stop_alert_timer(m, alert_index)
  ELSE
    LET current_alert_config == At(m.alerts, alert_index)
        m1 == show_alert_overlay(m, LiveItem(alert_index), raises)
    IN IF raises THEN m1
       ELSE IF current_alert_config.repeat = REPEAT_OPTION_NONE
       THEN save_alerts(stop_alert_timer(
              [m1 EXCEPT !.alerts[alert_index + 1].enabled = FALSE], alert_index))
       ELSE schedule_alert_timer(m1, alert_index, t)

trigger_alert(m, alert_data, alert_index, t, raises) ==
  IF alert_index = TEMP_INDEX
  THEN show_alert_overlay(m, CopyItem(alert_data), raises)
  ELSE IF ~(0 <= alert_index /\ alert_index < Len(m.alerts))
  THEN stop_alert_timer(m, alert_index)
  ELSE IF ~At(m.alerts, alert_index).enabled
  THEN stop_alert_timer(m, alert_index)
  ELSE
    LET current_alert_config == At(m.alerts, alert_index)
        m1 == show_alert_overlay(m, LiveItem(alert_index), raises)
    IN IF raises THEN m1
       ELSE IF current_alert_config.repeat = REPEAT_OPTION_NONE
       THEN save_alerts(stop_alert_timer(
              [m1 EXCEPT !.alerts[alert_index + 1].enabled = FALSE], alert_index))
       ELSE schedule_alert_timer(m1, alert_index, t)

\* _handle_temporary_alert_trigger that leaves the timer in temporary_timers.
_handle_temporary_alert_trigger_keeps_timer(m, timer_instance, t, raises) ==
  trigger_alert(m, timer_instance.data, TEMP_INDEX, t, raises)

\* _handle_temporary_alert_trigger without its 'finally': a presentation
\* that raises leaves the timer in temporary_timers.
_handle_temporary_alert_trigger_no_finally(m, timer_instance, t, raises) ==
  LET m1 == trigger_alert(m, timer_instance.data, TEMP_INDEX, t, raises)
  IN IF ~raises /\ BagIn(timer_instance, m1.temps)
     THEN [m1 EXCEPT !.temps = @ (-) SetToBag({timer_instance})]
     ELSE m1

_handle_temporary_alert_trigger(m, timer_instance, t, raises) ==
  LET m1 == trigger_alert(m, timer_instance.data, TEMP_INDEX, t, raises)
  IN IF BagIn(timer_instance, m1.temps)
     THEN [m1 EXCEPT !.temps = @ (-) SetToBag({timer_instance})]
     ELSE m1

\* for idx in range(first, len(alerts)): schedule the alert if it is enabled.
RECURSIVE RescheduleFrom(_, _, _)
RescheduleFrom(m, new_idx, t) ==
  IF new_idx >= Len(m.alerts) \/ m.raised THEN m
  ELSE RescheduleFrom(
         IF At(m.alerts, new_idx).enabled
         THEN schedule_alert_timer(m, new_idx, t) ELSE m,
         new_idx + 1, t)

\* reindex_timers_after_removal done as initialize_timers does it: every
\* timer is stopped, the temporary ones too, and every alert rescheduled.
reindex_timers_by_stop_all(m, removed_alert_original_index, t) ==
  RescheduleFrom(stop_all_timers(m), 0, t)

\* reindex_timers_after_removal without its first loop: the timers at and
\* after the removed index are not stopped before the alerts are rescheduled.
reindex_timers_without_stop(m, removed_alert_original_index, t) ==
  RescheduleFrom(m, removed_alert_original_index, t)

reindex_timers_after_removal(m, removed_alert_original_index, t) ==
  LET stopped ==
        [m EXCEPT !.timers =
           [k \in {idx \in DOMAIN m.timers : idx < removed_alert_original_index}
              |-> m.timers[k]]]
  IN RescheduleFrom(stopped, removed_alert_original_index, t)

\* The temporary alert delay_alerts builds from a shown alert.
TempAlert(original_alert_data, minutes, t) ==
  [original_alert_data EXCEPT
     !.original_alert_index = TEMP_INDEX,
     !.repeat = REPEAT_OPTION_NONE,
     !.enabled = TRUE,
     !.date = QDateToString(DateOf(t + minutes * SubTicks)),
     !.time = QTimeToString(TimeOf(t + minutes * SubTicks))]

\* unique_alerts_map: one entry per distinct json.dumps of a shown alert.
UniqueAlerts(m) == {OverlayAlert(item, m.alerts) : item \in BagToSet(m.overlays)}

RECURSIVE ScheduleTemps(_, _, _, _)
ScheduleTemps(m, todo, minutes, t) ==
  IF todo = {} THEN m
  ELSE LET original_alert_data == CHOOSE a \in todo : TRUE
       IN ScheduleTemps(
            _schedule_single_alert_instance(
              m, TempAlert(original_alert_data, minutes, t), t),
            todo \ {original_alert_data}, minutes, t)

\* delay_alerts without unique_alerts_map: one temporary alert per overlay.
delay_alerts_per_overlay(m, minutes, t) ==
  IF m.overlays = EmptyBag THEN m
  ELSE LET stopped == stop_ongoing_alerts(m)
           shown_alerts == UniqueAlerts(m)
           count(a) == SumCounts(m.overlays,
                         {item \in BagToSet(m.overlays) :
                            OverlayAlert(item, m.alerts) = a})
           timer_of(a) ==
             CHOOSE timer \in BagToSet(_schedule_single_alert_instance(
                                 [stopped EXCEPT !.temps = EmptyBag],
                                 TempAlert(a, minutes, t), t).temps) : TRUE
           source(timer) == CHOOSE a \in shown_alerts : timer_of(a) = timer
       IN [stopped EXCEPT !.temps = @ (+)
             [timer \in {timer_of(a) : a \in shown_alerts}
                |-> count(source(timer))]]

\* delay_alerts updating the shown dict itself instead of a copy of it.
delay_alerts_in_place(m, minutes, t) ==
  IF m.overlays = EmptyBag THEN m
  ELSE LET live == {item.ref : item \in {o \in BagToSet(m.overlays) : o.ref >= 0}}
           written == [m EXCEPT !.alerts =
                         [k \in 1..Len(m.alerts) |->
                            IF (k - 1) \in live
                            THEN TempAlert(m.alerts[k], minutes, t)
                            ELSE m.alerts[k]]]
       IN [ScheduleTemps(stop_ongoing_alerts(m), UniqueAlerts(m), minutes, t)
             EXCEPT !.alerts = written.alerts]

delay_alerts(m, minutes, t) ==
  IF m.overlays = EmptyBag THEN m
  ELSE ScheduleTemps(stop_ongoing_alerts(m), UniqueAlerts(m), minutes, t)

initialize_timers(m, t) == RescheduleFrom(stop_all_timers(m), 0, t)

\* ------------------------------------------------------ MainWindow handlers
\* alerts.pop(row) or alerts[index] = updated: the dict that was at `index`
\* leaves the list.  An overlay showing it keeps that dict, now out of reach
\* of any writer; overlays of later rows follow their dict to its new index.
Moved(item, m, index, shift) ==
  IF item.ref = index THEN CopyItem(At(m.alerts, index))
  ELSE IF shift /\ item.ref > index THEN LiveItem(item.ref - 1)
  ELSE item

Detach(m, index, shift) ==
  LET image == {Moved(item, m, index, shift) : item \in DOMAIN m.overlays}
  IN [m EXCEPT !.overlays =
        [moved \in image |->
           SumCounts(m.overlays,
                     {item \in DOMAIN m.overlays :
                        Moved(item, m, index, shift) = moved})]]

Pop(list, index) ==
  [k \in 1..(Len(list) - 1) |-> IF k <= index THEN list[k] ELSE list[k + 1]]

open_add_alert_dialog(m, new_alert, t) ==
  LET appended == [m EXCEPT !.alerts = Append(@, new_alert)]
      alert_idx == Len(appended.alerts) - 1
      scheduled == schedule_alert_timer(appended, alert_idx, t)
  IN IF scheduled.raised THEN scheduled ELSE save_alerts(scheduled)

\* AddAlertDialog.get_alert: the fields of the form, and 'enabled' as it was
\* in the copy the dialog was opened with.
get_alert(alert_data, form) == [form EXCEPT !.enabled = alert_data.enabled]

\* The part of open_edit_alert_dialog that follows dialog.exec_().
open_edit_alert_dialog(m, index, alert_data, form, t) ==
  LET updated_alert == get_alert(alert_data, form)
      replaced == [Detach(m, index, FALSE) EXCEPT !.alerts[index + 1] = updated_alert]
      scheduled == schedule_alert_timer(replaced, index, t)
  IN IF scheduled.raised THEN scheduled ELSE save_alerts(scheduled)

\* toggle_alert_enabled that schedules every alert anew, as the start of the
\* program does, instead of the one alert it was called for.
toggle_alert_enabled_reschedules_all(m, index, is_enabled, t) ==
  IF ~(0 <= index /\ index < Len(m.alerts)) THEN m
  ELSE LET set == [m EXCEPT !.alerts[index + 1].enabled = is_enabled]
           scheduled == initialize_timers(set, t)
       IN IF scheduled.raised THEN scheduled ELSE save_alerts(scheduled)

\* toggle_alert_enabled that leaves the timer of an alert it disables.
toggle_alert_enabled_keeps_timer(m, index, is_enabled, t) ==
  IF ~(0 <= index /\ index < Len(m.alerts)) THEN m
  ELSE LET set == [m EXCEPT !.alerts[index + 1].enabled = is_enabled]
           scheduled == IF is_enabled THEN schedule_alert_timer(set, index, t) ELSE set
       IN IF scheduled.raised THEN scheduled ELSE save_alerts(scheduled)

toggle_alert_enabled(m, index, is_enabled, t) ==
  IF ~(0 <= index /\ index < Len(m.alerts)) THEN m
  ELSE LET set == [m EXCEPT !.alerts[index + 1].enabled = is_enabled]
           scheduled == IF is_enabled THEN schedule_alert_timer(set, index, t)
                        ELSE stop_alert_timer(set, index)
       IN IF scheduled.raised THEN scheduled ELSE save_alerts(scheduled)

remove_selected_alert(m, row_to_remove, t) ==
  LET popped == [Detach(m, row_to_remove, TRUE) EXCEPT
                   !.alerts = Pop(m.alerts, row_to_remove)]
      reindexed == reindex_timers_after_removal(popped, row_to_remove, t)
  IN IF reindexed.raised THEN reindexed ELSE save_alerts(reindexed)

\* test_specific_alert treating the test as the fire of a one-shot: the alert
\* shown is disabled.
test_specific_alert_disabling(m, index) ==
  IF 0 <= index /\ index < Len(m.alerts)
  THEN [show_alert_overlay(m, CopyItem(At(m.alerts, index)), FALSE)
          EXCEPT !.alerts[index + 1].enabled = FALSE]
  ELSE m

test_specific_alert(m, index) ==
  IF 0 <= index /\ index < Len(m.alerts)
  THEN show_alert_overlay(m, CopyItem(At(m.alerts, index)), FALSE)
  ELSE m

exit_application(m) == stop_all_timers(save_alerts(stop_ongoing_alerts(m)))

\* ------------------------------------------------------------ the inputs
StartNow == QDateTime(StartDay, 0)

Alert(text, date, time, repeat, weekdays, day_of_month, display) ==
  [enabled |-> TRUE, date |-> date, time |-> time, repeat |-> repeat,
   weekdays |-> weekdays, day_of_month |-> day_of_month, text |-> text,
   display |-> display, original_alert_index |-> NoKey]

\* What the user enters in AddAlertDialog: a one-shot for later on the first
\* day (in the past once that instant has gone by), the same one-shot moved
\* to the next midnight, and a daily alert, on all screens, due at midnight
\* since the day before.
OnceForm == Alert("once", StartDay, 1, REPEAT_OPTION_NONE, {}, 1, DISPLAY_OPTION_MAIN)
LaterForm == Alert("once", StartDay + 1, 0, REPEAT_OPTION_NONE, {}, 1, DISPLAY_OPTION_MAIN)
DailyForm == Alert("daily", StartDay - 1, 0, REPEAT_OPTION_DAILY, {}, 1, DISPLAY_OPTION_ALL)
Forms == {OnceForm, LaterForm, DailyForm}

\* What load_alerts can return: the same alerts, enabled or not.
LoadedAlerts == {[f EXCEPT !.enabled = e] : f \in Forms, e \in BOOLEAN}

\* The delays of the tray menu, in ticks.
DelayChoices == {1, 2}

Lists(S, n) == UNION {[1..k -> S] : k \in 0..n}

\* ------------------------------------------------------------- actions
NoDialog == << >>

\* No handler ran in the step: time passed, a dialog opened or closed, an
\* overlay closed itself.
Idle == [op |-> "idle", index |-> TEMP_INDEX, shown |-> << >>, pre |-> << >>]

\* The QTimer of alert_timers[index] is overdue by more than a day: its slot
\* could not run in between (the machine was asleep).
Overdue(index) ==
  /\ index \in DOMAIN alert_timers
  /\ now > alert_timers[index].fires_at + SubTicksPerDay

Finish(m, op, index) ==
  /\ aborted' = m.raised
  /\ alerts' = m.alerts
  /\ saved' = m.saved
  /\ alert_timers' = m.timers
  /\ temporary_timers' = m.temps
  /\ overlays' = m.overlays
  /\ last' = [op |-> op, index |-> index, shown |-> m.shown,
              pre |-> IF op \in {"remove", "delay"} \/ (op = "fire" /\ Overdue(index))
                      THEN <<[alerts |-> alerts, timers |-> alert_timers,
                              temps |-> temporary_timers, overlays |-> overlays]>>
                      ELSE << >>]

\* MainWindow.__init__ at instant t: load_alerts of the file, then
\* initialize_timers.
InitOn(file, t, checking) ==
  LET m == initialize_timers(
             [alerts |-> load_alerts(file), saved |-> file, timers |-> NoTimers,
              temps |-> EmptyBag, overlays |-> EmptyBag, shown |-> << >>,
              checking |-> checking, raised |-> FALSE],
             t)
  IN /\ alerts = m.alerts
     /\ saved = m.saved
     /\ alert_timers = m.timers
     /\ temporary_timers = m.temps
     /\ overlays = m.overlays
     /\ last = [op |-> "initialize", index |-> TEMP_INDEX, shown |-> m.shown,
                pre |-> <<[file |-> file]>>]
     /\ dispatched = {}
     /\ dialog = NoDialog
     /\ running = TRUE
     /\ aborted = m.raised
     /\ overflow_checking = checking
     /\ now = t
     /\ next_trigger = None

\* The alerts of these lists are never further away than the longest delay
\* a QTimer takes, so that what the build does beyond it cannot be seen.
InitAt(file, t) == InitOn(file, t, TRUE)

InitWith(loaded) == InitAt(loaded, StartNow)

Init == \E loaded \in Lists(LoadedAlerts, MaxAlerts) : InitWith(loaded)

\* Room on the screens for the overlays of one more presentation.
CanShow(alert_data) ==
  BagCardinality(overlays) + ScreensFor(alert_data) <= MaxOverlays

\* The process lives and its event loop has not been told to quit.
Alive == running /\ ~aborted

\* The main window takes no input while a modal dialog is open.
MainWindowActive == Alive /\ dialog = NoDialog

Tick ==
  /\ Alive
  /\ now < StartNow + MaxTime
  /\ now' = now + 1
  /\ last' = Idle
  /\ UNCHANGED <<aborted, overflow_checking, next_trigger, alerts, saved, alert_timers, temporary_timers, overlays,
                 dispatched, dialog, running>>

Add ==
  /\ MainWindowActive
  /\ Len(alerts) < MaxAlerts
  /\ \E form \in Forms :
       Finish(open_add_alert_dialog(Machine, form, now), "add", Len(alerts))
  /\ UNCHANGED <<overflow_checking, next_trigger, dispatched, dialog, running, now>>

EditOpen ==
  /\ MainWindowActive
  /\ \E index \in Indices(alerts) :
       dialog' = <<[index |-> index, alert_data |-> At(alerts, index)]>>
  /\ last' = Idle
  /\ UNCHANGED <<aborted, overflow_checking, next_trigger, alerts, saved, alert_timers, temporary_timers, overlays,
                 dispatched, running, now>>

EditCommit ==
  /\ Alive
  /\ dialog # NoDialog
  /\ \E form \in Forms :
       Finish(open_edit_alert_dialog(Machine, dialog[1].index,
                                     dialog[1].alert_data, form, now),
              "edit", dialog[1].index)
  /\ dialog' = NoDialog
  /\ UNCHANGED <<overflow_checking, next_trigger, dispatched, running, now>>

EditCancel ==
  /\ Alive
  /\ dialog # NoDialog
  /\ dialog' = NoDialog
  /\ last' = Idle
  /\ UNCHANGED <<aborted, overflow_checking, next_trigger, alerts, saved, alert_timers, temporary_timers, overlays,
                 dispatched, running, now>>

\* The checkbox of row `index` changes state: is_enabled is its new state.
Toggle ==
  /\ MainWindowActive
  /\ \E index \in Indices(alerts) :
       Finish(toggle_alert_enabled(Machine, index, ~At(alerts, index).enabled, now),
              "toggle", index)
  /\ UNCHANGED <<overflow_checking, next_trigger, dispatched, dialog, running, now>>

Remove ==
  /\ MainWindowActive
  /\ \E row \in Indices(alerts) :
       Finish(remove_selected_alert(Machine, row, now), "remove", row)
  /\ UNCHANGED <<overflow_checking, next_trigger, dispatched, dialog, running, now>>

\* The "Test" button of a row; test_specific_alert for an index in `rows`.
TestAlertIn(rows) ==
  /\ MainWindowActive
  /\ \E index \in rows :
       /\ index \in Indices(alerts) => CanShow(At(alerts, index))
       /\ Finish(test_specific_alert(Machine, index), "test", index)
  /\ UNCHANGED <<overflow_checking, next_trigger, dispatched, dialog, running, now>>

TestAlert == TestAlertIn(Indices(alerts))

\* The QTimer of alert_timers[index] times out and its slot runs at once.
\* What keeps a timer from firing is stop(), in stop_alert_timer and
\* stop_all_timers, so a timer left behind could fire at any later time.
RegularFire ==
  /\ ~aborted
  /\ \E index \in DOMAIN alert_timers :
       /\ alert_timers[index].active
       /\ now >= alert_timers[index].fires_at
       /\ index \in Indices(alerts) => CanShow(At(alerts, index))
       /\ Finish(trigger_alert(Machine, alert_timers[index].data, index, now, FALSE),
                 "fire", index)
  /\ UNCHANGED <<overflow_checking, next_trigger, dispatched, dialog, running, now>>

\* A QTimer of temporary_timers times out; the presentation may raise.
TempFire ==
  /\ ~aborted
  /\ \E timer \in BagToSet(temporary_timers), raises \in BOOLEAN :
       /\ now >= timer.fires_at
       /\ CanShow(timer.data)
       /\ Finish(_handle_temporary_alert_trigger(Machine, timer, now, raises),
                 IF raises THEN "tempfire_raised" ELSE "tempfire", TEMP_INDEX)
  /\ UNCHANGED <<overflow_checking, next_trigger, dispatched, dialog, running, now>>

\* "Delay by N minutes" of the tray menu, while temporary_timers has room.
DelayUpTo(max_timers) ==
  /\ Alive
  /\ overlays # EmptyBag
  /\ Cardinality(UniqueAlerts(Machine)) + BagCardinality(temporary_timers) <= max_timers
  /\ \E minutes \in DelayChoices :
       Finish(delay_alerts(Machine, minutes, now), "delay", minutes)
  /\ UNCHANGED <<overflow_checking, next_trigger, dispatched, dialog, running, now>>

Delay == DelayUpTo(MaxTemp)

\* An overlay's exit_timer closes it: remove_overlay_reference.
CloseOverlay ==
  /\ Alive
  /\ \E item \in BagToSet(overlays) :
       overlays' = overlays (-) SetToBag({item})
  /\ last' = Idle
  /\ UNCHANGED <<aborted, overflow_checking, next_trigger, alerts, saved, alert_timers, temporary_timers, dispatched,
                 dialog, running, now>>

StopOngoing ==
  /\ Alive
  /\ overlays # EmptyBag
  /\ Finish(stop_ongoing_alerts(Machine), "stop_ongoing", TEMP_INDEX)
  /\ UNCHANGED <<overflow_checking, next_trigger, dispatched, dialog, running, now>>

Exit ==
  /\ Alive
  /\ Finish(exit_application(Machine), "exit", TEMP_INDEX)
  /\ running' = FALSE
  /\ UNCHANGED <<overflow_checking, next_trigger, dispatched, dialog, now>>

Next ==
  \/ Tick
  \/ Add
  \/ EditOpen
  \/ EditCommit
  \/ EditCancel
  \/ Toggle
  \/ Remove
  \/ TestAlert
  \/ RegularFire
  \/ TempFire
  \/ Delay
  \/ CloseOverlay
  \/ StopOngoing
  \/ Exit

Spec == Init /\ [][Next]_vars

\* ---------------------------------------------------- queued timeouts
\* The timer primitive trigger_alert defends against ("alert likely
\* removed", "disabled since scheduling"): a timeout is queued when the timer
\* expires and its slot runs later, also when the timer was stopped and
\* dropped from alert_timers in between.
Dispatch ==
  /\ Alive
  /\ \E index \in DOMAIN alert_timers :
       /\ alert_timers[index].active
       /\ now >= alert_timers[index].fires_at
       /\ Cardinality(dispatched) < MaxQueued
       /\ alert_timers' = [alert_timers EXCEPT ![index].active = FALSE]
       /\ dispatched' =
            dispatched \cup {[index |-> index, data |-> alert_timers[index].data]}
  /\ last' = Idle
  /\ UNCHANGED <<aborted, overflow_checking, next_trigger, alerts, saved, temporary_timers, overlays, dialog, running, now>>

Deliver ==
  /\ Alive
  /\ \E callback \in dispatched :
       /\ callback.index \in Indices(alerts) => CanShow(At(alerts, callback.index))
       /\ Finish(trigger_alert(Machine, callback.data, callback.index, now, FALSE),
                 "fire", callback.index)
       /\ dispatched' = dispatched \ {callback}
  /\ UNCHANGED <<overflow_checking, next_trigger, dialog, running, now>>

NextQueued ==
  \/ Tick
  \/ Add
  \/ EditOpen
  \/ EditCommit
  \/ EditCancel
  \/ Toggle
  \/ Remove
  \/ CloseOverlay
  \/ Dispatch
  \/ Deliver

SpecQueued == Init /\ [][NextQueued]_vars

\* --------------------------------------------------- a longer list
\* The rows of a list of MaxStored alerts are removed and toggled and their
\* timers fire; no alert is added.
StoredAlerts == {alert_data \in LoadedAlerts : alert_data.date <= StartDay}

InitStored == \E loaded \in [1..MaxStored -> StoredAlerts] : InitWith(loaded)

NextReindex ==
  \/ Tick
  \/ Toggle
  \/ Remove
  \/ RegularFire
  \/ StopOngoing

SpecReindex == InitStored /\ [][NextReindex]_vars

\* ------------------------------------------------------- snoozing
\* Alerts are shown and tested, and what is on screen is delayed, with room
\* for MaxSnoozed temporary timers; the list is not edited.
DelayMany == DelayUpTo(MaxSnoozed)

\* test_specific_alert is also given the index one past the last row.
TestAnyIndex == TestAlertIn(0..Len(alerts))

NextSnooze ==
  \/ Tick
  \/ Toggle
  \/ TestAnyIndex
  \/ RegularFire
  \/ TempFire
  \/ DelayMany
  \/ CloseOverlay

SpecSnooze == Init /\ [][NextSnooze]_vars

\* ------------------------------------------------------- the start
\* alerts.json as the program finds it when it starts: alerts of every repeat
\* mode, one without a valid time, a weekly one without a day, a monthly one
\* with a day_of_month outside 1..31, and two whose
\* next trigger can be further away than TIMER_MAX: the alert of a month's
\* last day, and a one-shot FarDays after the first day.
MonthEndForm ==
  Alert("month end", StartDay, 0, REPEAT_OPTION_MONTHLY, {}, 31, DISPLAY_OPTION_MAIN)
FarForm ==
  Alert("far", StartDay + FarDays, 1, REPEAT_OPTION_NONE, {}, 1, DISPLAY_OPTION_MAIN)
NoTimeForm ==
  Alert("no time", StartDay, InvalidStr, REPEAT_OPTION_DAILY, {}, 1, DISPLAY_OPTION_MAIN)
WeeklyForm ==
  Alert("weekly", StartDay, 1, REPEAT_OPTION_WEEKLY, {"Mon", "Fri"}, 1, DISPLAY_OPTION_MAIN)
NoDayForm ==
  Alert("no day", StartDay, 0, REPEAT_OPTION_WEEKLY, {}, 1, DISPLAY_OPTION_MAIN)
BadDayForm ==
  Alert("bad day", StartDay, 0, REPEAT_OPTION_MONTHLY, {}, 0, DISPLAY_OPTION_MAIN)

StartupForms ==
  {OnceForm, DailyForm, MonthEndForm, FarForm, NoTimeForm, WeeklyForm, NoDayForm,
   BadDayForm}

StartupAlerts == {[f EXCEPT !.enabled = e] : f \in StartupForms, e \in BOOLEAN}

\* The program starts at some instant of the first day or at the midnight
\* that ends it, on a build of either kind.
InitStartup ==
  \E file \in Lists(StartupAlerts, MaxAlerts),
     t \in StartNow..(StartNow + SubTicksPerDay),
     checking \in BOOLEAN :
    InitOn(file, t, checking)

NextStartup ==
  \/ Tick
  \/ Toggle
  \/ RegularFire
  \/ StopOngoing

SpecStartup == InitStartup /\ [][NextStartup]_vars

\* ------------------------------------------------------- the sleep
\* The machine sleeps for days with timers pending: no slot runs meanwhile,
\* and the QTimers that came due time out once it is awake again.
SleepDays == {3, 62}

SleepForms == {DailyForm, WeeklyForm, MonthEndForm}

InitSleep ==
  \E file \in Lists(SleepForms, MaxAlerts),
     t \in StartNow..(StartNow + 1),
     checking \in BOOLEAN :
    InitOn(file, t, checking)

Sleep ==
  /\ Alive
  /\ now <= StartNow + MaxTime
  /\ \E days \in SleepDays : now' = now + days * SubTicksPerDay
  /\ last' = Idle
  /\ UNCHANGED <<aborted, overflow_checking, next_trigger, alerts, saved, alert_timers,
                 temporary_timers, overlays, dispatched, dialog, running>>

NextSleep ==
  \/ Tick
  \/ Sleep
  \/ RegularFire
  \/ StopOngoing

SpecSleep == InitSleep /\ [][NextSleep]_vars

\* ------------------------------------------------- the calculation
\* calculate_next_trigger is called for the one alert of alerts.json at
\* every instant of two windows of CalcDays days, from 2024-01-30 (before a
\* February of 29 days) and from 2025-01-30 (before one of 28).
CalcDates ==
  {InvalidStr, StartDay - 1, StartDay, StartDay + 3, QDate(2025, 1, 1) + StartDay}

CalcTimes == {InvalidStr} \cup (0..(TicksPerDay - 1))

CalcWeekdays ==
  {{}, {"Mon", "Fri"}, {"Wed"}, {"Sun"},
   {WEEKDAYS_ABBR[i] : i \in 1..7}, {"Xyz"}}

CalcDaysOfMonth == {0, 1, 29, 30, 31, 32}

\* The lengths, in sub-ticks, of the intervals of the "Interval" entries.
IntervalChoices == {3, 5}

CalcAlerts ==
  {Alert("calc", date, time, repeat, {}, 1, DISPLAY_OPTION_MAIN) :
     date \in CalcDates, time \in CalcTimes,
     repeat \in {REPEAT_OPTION_NONE, REPEAT_OPTION_DAILY}}
  \cup
  {Alert("calc", date, time, REPEAT_OPTION_WEEKLY, weekdays, 1, DISPLAY_OPTION_MAIN) :
     date \in CalcDates, time \in CalcTimes, weekdays \in CalcWeekdays}
  \cup
  {Alert("calc", date, time, REPEAT_OPTION_MONTHLY, {}, day_of_month, DISPLAY_OPTION_MAIN) :
     date \in CalcDates, time \in CalcTimes, day_of_month \in CalcDaysOfMonth}

\* Entries of alerts.json that ask for a repeat every interval_minutes.
IntervalAlerts ==
  {[enabled |-> TRUE, date |-> date, time |-> time, repeat |-> "Interval",
    interval_minutes |-> minutes, weekdays |-> {}, day_of_month |-> 1,
    text |-> "calc", display |-> DISPLAY_OPTION_MAIN] :
     date \in {StartDay - 1, StartDay}, time \in 0..(TicksPerDay - 1),
     minutes \in IntervalChoices}

CalcWindow(first_day) ==
  QDateTime(first_day, 0)..QDateTime(first_day + CalcDays, 0)

CalcInstants ==
  CalcWindow(StartDay - 1) \cup CalcWindow(QDate(2025, 1, 1) + StartDay - 1)

InitCalc ==
  \E alert_dict \in CalcAlerts \cup IntervalAlerts, t \in CalcInstants,
     checking \in BOOLEAN :
    InitOn(<<alert_dict>>, t, checking)

\* calculate_next_trigger(now, alert) for an alert of the list; 'last' keeps
\* the file the list was loaded from.
Calculate ==
  /\ Alive
  /\ \E index \in Indices(alerts) :
       /\ next_trigger' = calculate_next_trigger(now, At(alerts, index))
       /\ last' = [op |-> "calculate_next_trigger", index |-> index,
                   shown |-> << >>, pre |-> last.pre]
  /\ UNCHANGED <<aborted, overflow_checking, alerts, saved, alert_timers,
                 temporary_timers, overlays, dispatched, dialog, running, now>>

NextCalc == Calculate

SpecCalc == InitCalc /\ [][NextCalc]_vars

\* ------------------------------------------------- the recalculation
\* calculate_next_trigger is called again for the same alert at a later
\* instant, not after the instant it returned the time before.
InitRecalc ==
  \E alert_dict \in CalcAlerts, t \in CalcInstants :
    InitOn(<<alert_dict>>, t, FALSE)

Later ==
  /\ Alive
  /\ last.op = "calculate_next_trigger"
  /\ next_trigger # None
  /\ now < next_trigger
  /\ now' = now + 1
  /\ UNCHANGED <<aborted, overflow_checking, next_trigger, last, alerts, saved,
                 alert_timers, temporary_timers, overlays, dispatched, dialog, running>>

NextRecalc ==
  \/ Calculate
  \/ Later

SpecRecalc == InitRecalc /\ [][NextRecalc]_vars

\* ------------------------------------------------- delays that come due
\* The program runs on without being quit: time goes by, also past the last
\* instant at which the user does anything, until every temporary timer is
\* due; the user tests alerts and picks the tray's delay only before that
\* instant, so finitely often.  The event loop runs the slot of a timer that
\* is due, and an overlay closes itself in the end.
TickLate ==
  /\ Alive
  /\ now >= StartNow + MaxTime
  /\ \E timer \in BagToSet(temporary_timers) : now < timer.fires_at
  /\ now' = now + 1
  /\ last' = Idle
  /\ UNCHANGED <<aborted, overflow_checking, next_trigger, alerts, saved, alert_timers,
                 temporary_timers, overlays, dispatched, dialog, running>>

TestSoon ==
  /\ now < StartNow + MaxTime
  /\ TestAlert

DelaySoon ==
  /\ now < StartNow + MaxTime
  /\ Delay

NextLive ==
  \/ Tick
  \/ TickLate
  \/ TestSoon
  \/ DelaySoon
  \/ TempFire
  \/ CloseOverlay

SpecLive ==
  /\ Init
  /\ [][NextLive]_vars
  /\ WF_vars(Tick)
  /\ WF_vars(TickLate)
  /\ WF_vars(CloseOverlay)
  /\ WF_vars(TempFire)

\* ================================================================ claims
HasTimer(index) == index \in DOMAIN alert_timers

\* C1: in every reachable state, no alert whose 'enabled' flag is false has
\* an entry in alert_timers at its index.
C1_DisabledHasNoTimer ==
  \A index \in Indices(alerts) : ~At(alerts, index).enabled => ~HasTimer(index)

\* A toggle or a fire has just disabled an alert, next to one still armed.
C1_Witness ==
  /\ last.op \in {"toggle", "fire"}
  /\ last.index \in Indices(alerts)
  /\ ~At(alerts, last.index).enabled
  /\ \E other \in Indices(alerts) : HasTimer(other)

\* C2: a timer callback for an index that is no longer an index of the list,
\* or whose live alert is disabled, is discarded: show_alert_overlay is not
\* called, the list is unchanged and the index has no timer afterwards.
C2_DiscardedFire ==
  [][(/\ last'.op = "fire"
      /\ \/ last'.index \notin Indices(alerts)
         \/ ~At(alerts, last'.index).enabled)
     => /\ last'.shown = << >>
        /\ alerts' = alerts
        /\ last'.index \notin DOMAIN alert_timers']_vars

\* A callback ran for an index past the end of the list and was discarded.
C2_Witness ==
  /\ last.op = "fire"
  /\ last.index \notin Indices(alerts)
  /\ last.shown = << >>

\* The timer a queued callback came from is no longer the one alert_timers
\* holds at its index: it was stopped, and the index re-armed or not.
StaleCallback(callback) ==
  ~(/\ callback.index \in DOMAIN alert_timers
    /\ ~alert_timers[callback.index].active
    /\ alert_timers[callback.index].data = callback.data)

\* C3: a callback whose index no longer maps to the alert it was armed for
\* is discarded: it presents nothing and neither disables nor re-arms the
\* alert now at that index.
C3_StaleCallbackDiscarded ==
  [][\A callback \in dispatched :
       (/\ callback \notin dispatched'
        /\ last'.op = "fire"
        /\ StaleCallback(callback))
       => /\ last'.shown = << >>
          /\ alerts' = alerts
          /\ callback.index \in DOMAIN alert_timers =>
               /\ callback.index \in DOMAIN alert_timers'
               /\ alert_timers'[callback.index] = alert_timers[callback.index]]_vars

\* The index after the step of the alert that is at `index` before it.
NewIndex(index) ==
  IF last'.op = "remove" /\ index > last'.index THEN index - 1 ELSE index

Survives(index) == ~(last'.op = "remove" /\ index = last'.index)

\* C4: when the timer of an enabled "No Repeat" alert fires, the alert is
\* shown, its 'enabled' flag becomes false and its index has no timer; from
\* then on, as long as it is a "No Repeat" alert, it is enabled again (and
\* so armed or shown by a timer of alert_timers) only by the user ticking
\* its checkbox.
C4_OneShotFiresOnce ==
  [][/\ (/\ last'.op = "fire"
         /\ last'.index \in Indices(alerts)
         /\ At(alerts, last'.index).enabled
         /\ At(alerts, last'.index).repeat = REPEAT_OPTION_NONE)
        => (/\ last'.shown = <<At(alerts, last'.index)>>
            /\ ~At(alerts', last'.index).enabled
            /\ last'.index \notin DOMAIN alert_timers')
     /\ \A index \in Indices(alerts) :
          (/\ At(alerts, index).repeat = REPEAT_OPTION_NONE
           /\ ~At(alerts, index).enabled
           /\ Survives(index)
           /\ At(alerts', NewIndex(index)).repeat = REPEAT_OPTION_NONE
           /\ At(alerts', NewIndex(index)).enabled)
          => (/\ last'.op = "toggle"
              /\ last'.index = index)]_vars

\* What remove_selected_alert started from.
Removed == last.pre[1]

Computable(alert_data, t) ==
  /\ QTimeFromString(alert_data.time) # InvalidStr
  /\ calculate_next_trigger(t, alert_data) # None

\* C5: after the alert at index r was removed from a list of n alerts,
\* alert_timers has a timer at an index i >= r exactly when i <= n - 2 and
\* the alert now at i was enabled and has a next trigger, and so none at an
\* index >= n - 1.
C5_TimersAfterRemoval ==
  last.op = "remove" =>
    \A i \in last.index..Len(Removed.alerts) :
      HasTimer(i) <=>
        /\ i <= Len(Removed.alerts) - 2
        /\ At(Removed.alerts, i + 1).enabled
        /\ Computable(At(Removed.alerts, i + 1), now)

\* Timers at indices 1 and 3 of a list of 4 alerts; index 1 was removed and
\* exactly one timer is left, at index 2.
C5_Witness ==
  /\ last.op = "remove"
  /\ last.index = 1
  /\ Len(Removed.alerts) = 4
  /\ DOMAIN Removed.timers = {1, 3}
  /\ DOMAIN alert_timers = {2}

\* C6: every alert with a timer at an index j above the removed index r has,
\* after the removal, a timer at j - 1 that expires at the same instant.
C6_RemovalKeepsSchedule ==
  last.op = "remove" =>
    \A j \in DOMAIN Removed.timers :
      j > last.index =>
        /\ HasTimer(j - 1)
        /\ alert_timers[j - 1].fires_at = Removed.timers[j].fires_at

\* C7: a removal at index r leaves every timer at an index below r as it
\* was, and every alert but the removed one unchanged and in the same order.
C7_RemovalFrame ==
  last.op = "remove" =>
    /\ \A k \in DOMAIN Removed.timers :
         k < last.index => HasTimer(k) /\ alert_timers[k] = Removed.timers[k]
    /\ alerts = Pop(Removed.alerts, last.index)

\* The distinct alerts among the overlays on screen.
Presented == {OverlayAlert(item, alerts) : item \in BagToSet(overlays)}

\* C8: delay_alerts adds exactly one timer to temporary_timers for each
\* distinct alert among the overlays, however many overlays show it.
C8_OneTimerPerDistinctAlert ==
  [][last'.op = "delay" =>
       BagCardinality(temporary_timers') =
         BagCardinality(temporary_timers) + Cardinality(Presented)]_vars

\* Two overlays of one alert were delayed and one timer was added.
C8_Witness ==
  /\ last.op = "delay"
  /\ BagCardinality(last.pre[1].overlays) >= 2
  /\ Cardinality({OverlayAlert(item, last.pre[1].alerts) :
                    item \in BagToSet(last.pre[1].overlays)}) = 1
  /\ BagCardinality(temporary_timers) = BagCardinality(last.pre[1].temps) + 1

\* C9: when a timer of temporary_timers fires, show_alert_overlay is called
\* exactly once, with the alert the timer was created with, and that timer
\* is then taken out of temporary_timers, also when the call raises; the
\* list of alerts and alert_timers are unchanged.
C9_TemporaryFire ==
  [][last'.op \in {"tempfire", "tempfire_raised"} =>
       /\ \E timer \in BagToSet(temporary_timers) :
            /\ now >= timer.fires_at
            /\ last'.shown = <<timer.data>>
            /\ temporary_timers' = temporary_timers (-) SetToBag({timer})
       /\ alerts' = alerts
       /\ alert_timers' = alert_timers]_vars

\* A temporary alert fired while alerts had timers, and its presentation
\* raised.
C9_Witness ==
  /\ last.op = "tempfire_raised"
  /\ Len(last.shown) = 1
  /\ temporary_timers = EmptyBag
  /\ DOMAIN alert_timers # {}

\* C10: delay_alerts neither appends to nor changes the list of alerts, nor
\* alert_timers: what it delays is a timer of temporary_timers and the copy
\* that timer holds.
C10_DelayLeavesAlerts ==
  [][last'.op = "delay" =>
       /\ alerts' = alerts
       /\ saved' = saved
       /\ alert_timers' = alert_timers
       /\ \A timer \in BagToSet(temporary_timers') :
            BagIn(timer, temporary_timers) \/
              timer.data.original_alert_index = TEMP_INDEX]_vars

\* The overlays of an alert of the list, shown by its timer and armed
\* again, were delayed.
C10_Witness ==
  /\ last.op = "delay"
  /\ \E item \in BagToSet(last.pre[1].overlays) :
       /\ item.ref >= 0
       /\ HasTimer(item.ref)
       /\ \E timer \in BagToSet(temporary_timers) :
            timer.data.text = At(alerts, item.ref).text

\* A step puts a timer into temporary_timers / takes one out of it.
TempAdded ==
  \E timer \in BagToSet(temporary_timers') :
    CopiesIn(timer, temporary_timers') > CopiesIn(timer, temporary_timers)

TempRemoved ==
  \E timer \in BagToSet(temporary_timers) :
    CopiesIn(timer, temporary_timers') < CopiesIn(timer, temporary_timers)

\* C11: temporary_timers is left as it is by a removal, by scheduling or
\* stopping the timer of any index and by the fire of a timer of
\* alert_timers: only delay_alerts adds a timer to it, and only the fire of
\* one of its timers or exit_application takes one out.
C11_TemporaryTimersFrame ==
  [][/\ TempAdded => last'.op = "delay"
     /\ TempRemoved => last'.op \in {"tempfire", "tempfire_raised", "exit"}]_vars

\* A row was removed while a delayed alert was waiting, and it still waits.
C11_Witness ==
  /\ last.op = "remove"
  /\ temporary_timers # EmptyBag
  /\ temporary_timers = Removed.temps
  /\ DOMAIN alert_timers # DOMAIN Removed.timers

FireOps == {"fire", "tempfire", "tempfire_raised"}

\* C12: once exit_application has run, alert_timers and temporary_timers are
\* both empty, and no timer of either fires (so nothing is shown) from then
\* on.
C12_NothingAfterExit ==
  [][/\ ~running' => (DOMAIN alert_timers' = {} /\ temporary_timers' = EmptyBag)
     /\ ~running => last'.op \notin FireOps]_vars

\* The application has exited; an enabled daily alert is left without the
\* timer it had.
C12_Witness ==
  /\ ~running
  /\ last.op = "exit"
  /\ \E index \in Indices(alerts) :
       /\ At(alerts, index).enabled
       /\ At(alerts, index).repeat = REPEAT_OPTION_DAILY
       /\ ~HasTimer(index)

\* C13: test_specific_alert for an index of the list calls show_alert_overlay
\* with the alert now at that index and leaves the list (the alert's
\* 'enabled' flag too), alert_timers and temporary_timers as they are; for
\* any other index it shows nothing and changes nothing.
C13_TestLeavesState ==
  [][last'.op = "test" =>
       /\ alerts' = alerts
       /\ saved' = saved
       /\ alert_timers' = alert_timers
       /\ temporary_timers' = temporary_timers
       /\ IF last'.index \in Indices(alerts)
          THEN last'.shown = <<At(alerts, last'.index)>>
          ELSE last'.shown = << >> /\ overlays' = overlays]_vars

\* An enabled alert with a pending timer was tested while a delayed alert
\* was waiting.
C13_Witness ==
  /\ last.op = "test"
  /\ last.index \in Indices(alerts)
  /\ last.shown = <<At(alerts, last.index)>>
  /\ At(alerts, last.index).enabled
  /\ HasTimer(last.index)
  /\ temporary_timers # EmptyBag

\* C14: when initialize_timers has run, alert_timers has a timer at an index
\* exactly when the alert at that index is enabled and
\* calculate_next_trigger gives it a next trigger at that instant.
C14_TimersAfterInitialize ==
  last.op = "initialize" =>
    \A index \in Indices(alerts) :
      HasTimer(index) <=>
        (/\ At(alerts, index).enabled
         /\ calculate_next_trigger(now, At(alerts, index)) # None)

\* ------------------------------------------ calculate_next_trigger's result
\* calculate_next_trigger has just been called for the alert at last.index.
Calculated == last.op = "calculate_next_trigger"

Subject == At(alerts, last.index)

ValidTime(alert_data) == QTimeFromString(alert_data.time) # InvalidStr

ValidDate(alert_data) == QDateFromString(alert_data.date) # InvalidStr

\* The start date of a repeating alert: today when the 'date' does not parse.
StartDate(alert_data, t) ==
  IF ValidDate(alert_data) THEN QDateFromString(alert_data.date) ELSE DateOf(t)

\* max(startDate, now.date)
FirstDate(alert_data, t) == Max(StartDate(alert_data, t), DateOf(t))

\* C15: whatever the repeat mode and the instant, a next trigger that
\* calculate_next_trigger returns is not before the instant it was given.
C15_NeverBeforeNow ==
  Calculated => (next_trigger = None \/ next_trigger >= now)

\* A one-shot due at the very instant of the call is returned.
C15_Witness ==
  /\ Calculated
  /\ Subject.repeat = REPEAT_OPTION_NONE
  /\ next_trigger # None
  /\ next_trigger = now

\* C16: for a "Daily" alert with a valid time, calculate_next_trigger returns
\* the earliest instant not before now at the alert's time of day on a date
\* not before max(startDate, now.date): that date's instant when it has not
\* passed, the next day's otherwise.
C16_DailyEarliest ==
  (Calculated /\ Subject.repeat = REPEAT_OPTION_DAILY /\ ValidTime(Subject)) =>
    LET alert_time == QTimeFromString(Subject.time)
        first == FirstDate(Subject, now)
    IN /\ next_trigger # None
       /\ next_trigger >= now
       /\ TimeOf(next_trigger) = alert_time
       /\ DateOf(next_trigger) >= first
       /\ \A date \in first..(DateOf(next_trigger) - 1) :
            QDateTime(date, alert_time) < now
       /\ next_trigger = IF QDateTime(first, alert_time) >= now
                         THEN QDateTime(first, alert_time)
                         ELSE QDateTime(first + 1, alert_time)

\* Today's instant of a daily alert has passed: the result is tomorrow's.
C16_Witness ==
  /\ Calculated
  /\ Subject.repeat = REPEAT_OPTION_DAILY
  /\ ValidTime(Subject)
  /\ QDateTime(FirstDate(Subject, now), QTimeFromString(Subject.time)) < now
  /\ next_trigger = QDateTime(DateOf(now) + 1, QTimeFromString(Subject.time))

\* C17: for a "No Repeat" alert with a date and a time, the result is None
\* exactly when the instant of (date, time) is before now, and is that
\* instant when it is now or later.
C17_OneShotIffNotPassed ==
  (/\ Calculated
   /\ Subject.repeat = REPEAT_OPTION_NONE
   /\ ValidTime(Subject)
   /\ ValidDate(Subject)) =>
    LET trigger_dt == QDateTime(QDateFromString(Subject.date),
                                QTimeFromString(Subject.time))
    IN /\ next_trigger = None <=> trigger_dt < now
       /\ trigger_dt >= now => next_trigger = trigger_dt

\* The one-shot's instant passed one sub-tick ago: None.
C17_Witness ==
  /\ Calculated
  /\ Subject.repeat = REPEAT_OPTION_NONE
  /\ ValidTime(Subject)
  /\ ValidDate(Subject)
  /\ QDateTime(QDateFromString(Subject.date), QTimeFromString(Subject.time)) = now - 1
  /\ next_trigger = None

\* C18: for a "Weekly" alert with a valid time, the result is None when no
\* weekday is selected; otherwise it is the alert's time on the first date,
\* from max(startDate, now.date) on, whose weekday is selected and whose
\* instant is not before now.  With Mon and Fri selected and now a Wednesday
\* (the alert already started) that is the Friday two days later.
C18_WeeklyFirstDay ==
  (Calculated /\ Subject.repeat = REPEAT_OPTION_WEEKLY /\ ValidTime(Subject)) =>
    LET alert_time == QTimeFromString(Subject.time)
        first == FirstDate(Subject, now)
        targets == TargetDaysOfWeek(Subject.weekdays)
    IN IF targets = {} THEN next_trigger = None
       ELSE /\ next_trigger # None
            /\ next_trigger >= now
            /\ TimeOf(next_trigger) = alert_time
            /\ DateOf(next_trigger) >= first
            /\ DayOfWeek(DateOf(next_trigger)) \in targets
            /\ \A date \in first..(DateOf(next_trigger) - 1) :
                 ~(/\ DayOfWeek(date) \in targets
                   /\ QDateTime(date, alert_time) >= now)
            /\ (/\ Subject.weekdays = {"Mon", "Fri"}
                /\ DayOfWeek(DateOf(now)) = 3
                /\ first = DateOf(now))
               => DateOf(next_trigger) = DateOf(now) + 2

\* Mon and Fri selected, asked on a Wednesday: that week's Friday.
C18_Witness ==
  /\ Calculated
  /\ Subject.repeat = REPEAT_OPTION_WEEKLY
  /\ Subject.weekdays = {"Mon", "Fri"}
  /\ DayOfWeek(DateOf(now)) = 3
  /\ next_trigger # None
  /\ DateOf(next_trigger) = DateOf(now) + 2
  /\ DayOfWeek(DateOf(next_trigger)) = 5

\* The day a "Monthly" alert falls on in the month of `date`.
IsMonthlyCandidate(date, day_of_month) ==
  LET ymd == YMD(date)
  IN ymd.day = Min(day_of_month, DaysInMonth(ymd.year, ymd.month))

FirstOfMonth(date) == QDate(YMD(date).year, YMD(date).month, 1)

\* C19: for a "Monthly" alert with a valid time and a day_of_month in 1..31,
\* the result is the alert's time on the first date, from the month of
\* max(startDate, now.date) on, that is day min(day_of_month, days in the
\* month) of its month, not before startDate, and whose instant is not
\* before now.  With day_of_month 31, a start in January and now in a
\* February it is this February's last day, the 28th or the 29th.
C19_MonthlyClamped ==
  (/\ Calculated
   /\ Subject.repeat = REPEAT_OPTION_MONTHLY
   /\ ValidTime(Subject)
   /\ Subject.day_of_month \in 1..31) =>
    LET alert_time == QTimeFromString(Subject.time)
        start_date == StartDate(Subject, now)
        first == FirstDate(Subject, now)
        today == YMD(DateOf(now))
    IN /\ next_trigger # None
       /\ next_trigger >= now
       /\ TimeOf(next_trigger) = alert_time
       /\ DateOf(next_trigger) >= start_date
       /\ IsMonthlyCandidate(DateOf(next_trigger), Subject.day_of_month)
       /\ \A date \in FirstOfMonth(first)..(DateOf(next_trigger) - 1) :
            ~(/\ IsMonthlyCandidate(date, Subject.day_of_month)
              /\ date >= start_date
              /\ QDateTime(date, alert_time) >= now)
       /\ (/\ Subject.day_of_month = 31
           /\ YMD(start_date).month = 1
           /\ start_date < DateOf(now)
           /\ today.month = 2
           /\ now <= QDateTime(QDate(today.year, 2, DaysInMonth(today.year, 2)),
                               alert_time))
          => YMD(DateOf(next_trigger)) =
               [year |-> today.year, month |-> 2,
                day |-> DaysInMonth(today.year, 2)]

\* The 31st, started on 2024-01-31, asked in February 2024: February 29th.
C19_Witness ==
  /\ Calculated
  /\ Subject.repeat = REPEAT_OPTION_MONTHLY
  /\ Subject.day_of_month = 31
  /\ Subject.date = StartDay
  /\ YMD(DateOf(now)).month = 2
  /\ next_trigger # None
  /\ YMD(DateOf(next_trigger)) = [year |-> 2024, month |-> 2, day |-> 29]

\* The entry of alerts.json the alert at index 0 was loaded from.
FileEntry == last.pre[1].file[1]

\* C20: for an entry that repeats every interval_minutes and whose (date,
\* time) instant `start` is before now, the result is start + (elapsed + 1)
\* * interval_minutes, elapsed being the whole intervals from start to now,
\* and the alert's timer is set to expire at that instant.
C20_IntervalOnGrid ==
  (Calculated /\ FileEntry.repeat = "Interval") =>
    LET start == QDateTime(QDateFromString(FileEntry.date),
                           QTimeFromString(FileEntry.time))
        minutes == FileEntry.interval_minutes
        elapsed == (now - start) \div minutes
    IN start < now =>
         /\ next_trigger = start + (elapsed + 1) * minutes
         /\ HasTimer(last.index)
         /\ alert_timers[last.index].fires_at = next_trigger

\* The alert at index has a next trigger further away than a QTimer takes.
BeyondCeiling(index, t) ==
  /\ At(alerts, index).enabled
  /\ calculate_next_trigger(t, At(alerts, index)) # None
  /\ calculate_next_trigger(t, At(alerts, index)) - t > TIMER_MAX

\* C21: when the delay to an alert's next trigger is longer than TIMER_MAX,
\* scheduling it leaves a running timer at the alert's index that expires
\* TIMER_MAX later (the wake-up that schedules again), and no exception
\* ends the handler.
C21_CeilingChained ==
  last.op = "initialize" =>
    \A index \in Indices(alerts) :
      BeyondCeiling(index, now) =>
        /\ ~aborted
        /\ HasTimer(index)
        /\ alert_timers[index].active
        /\ alert_timers[index].fires_at = now + TIMER_MAX

\* A "No Repeat" alert whose (date, time) instant is before t.
PastOneShot(alert_data, t) ==
  /\ alert_data.repeat = REPEAT_OPTION_NONE
  /\ ValidTime(alert_data)
  /\ ValidDate(alert_data)
  /\ QDateTime(QDateFromString(alert_data.date),
               QTimeFromString(alert_data.time)) < t

\* The handler that ran last called schedule_alert_timer for the alert at
\* last.index, and the alert was enabled when it did.
ScheduledEnabled ==
  \/ last'.op = "add"
  \/ last'.op = "toggle" /\ ~At(alerts, last'.index).enabled
  \/ last'.op = "edit" /\ dialog[1].alert_data.enabled

\* C22: when schedule_alert_timer is called for an enabled "No Repeat" alert
\* whose instant is before now, the alert is disabled afterwards, has no
\* timer, and is not shown.
C22_PastOneShotDisabled ==
  [][(ScheduledEnabled /\ PastOneShot(At(alerts', last'.index), now')) =>
       (/\ ~At(alerts', last'.index).enabled
        /\ last'.index \notin DOMAIN alert_timers'
        /\ last'.shown = << >>)]_vars

\* A one-shot whose instant had passed was added.
C22_Witness ==
  /\ last.op = "add"
  /\ PastOneShot(At(alerts, last.index), now)
  /\ ~At(alerts, last.index).enabled
  /\ ~HasTimer(last.index)

\* A repeating alert with a valid time for which calculate_next_trigger has
\* no next trigger at any instant: no weekday selected, or a day_of_month
\* outside 1..31.
ConfigurationError(alert_data) ==
  /\ ValidTime(alert_data)
  /\ \/ /\ alert_data.repeat = REPEAT_OPTION_WEEKLY
        /\ TargetDaysOfWeek(alert_data.weekdays) = {}
     \/ /\ alert_data.repeat = REPEAT_OPTION_MONTHLY
        /\ ~(alert_data.day_of_month \in 1..31)

\* C23: when schedule_alert_timer is called for an enabled "Weekly" alert
\* without a weekday or an enabled "Monthly" alert with a day_of_month
\* outside 1..31 (by initialize_timers or by a toggle that enables it), the
\* alert has no timer afterwards and is still enabled.
C23_ConfigurationErrorStaysEnabled ==
  /\ \A index \in Indices(alerts) :
       (/\ last.op = "initialize"
        /\ last.pre[1].file[index + 1].enabled
        /\ ConfigurationError(At(alerts, index)))
       => (At(alerts, index).enabled /\ ~HasTimer(index))
  /\ [][(/\ last'.op = "toggle"
         /\ ~At(alerts, last'.index).enabled
         /\ ConfigurationError(At(alerts, last'.index)))
        => (/\ At(alerts', last'.index).enabled
            /\ last'.index \notin DOMAIN alert_timers'
            /\ ~aborted')]_vars

\* A weekly alert without a weekday, or a monthly one with day_of_month 0,
\* was switched on.
C23_Witness ==
  /\ last.op = "toggle"
  /\ ConfigurationError(At(alerts, last.index))
  /\ At(alerts, last.index).enabled
  /\ ~HasTimer(last.index)

\* C24: a date or a time that does not parse ends no handler; when
\* initialize_timers has scheduled the one enabled alert of the list, a
\* repeating alert whose date does not parse has the timer it would have
\* with today as its date, and a "No Repeat" alert whose date or whose time
\* does not parse is disabled and has no timer.  (Alerts whose next trigger is
\* further away than TIMER_MAX are left aside.)
C24_ParseErrorRecovered ==
  (/\ last.op = "initialize"
   /\ Len(alerts) = 1
   /\ last.pre[1].file[1].enabled
   /\ ~(ValidDate(At(alerts, 0)) /\ ValidTime(At(alerts, 0)))
   /\ ~BeyondCeiling(0, now)) =>
    LET alert_data == At(alerts, 0)
        today == [alert_data EXCEPT !.date = QDateToString(DateOf(now))]
    IN /\ ~aborted
       /\ (/\ alert_data.repeat # REPEAT_OPTION_NONE
           /\ ValidTime(alert_data)
           /\ ~ConfigurationError(alert_data))
          => (/\ HasTimer(0)
              /\ alert_timers[0].fires_at = calculate_next_trigger(now, today))
       /\ alert_data.repeat = REPEAT_OPTION_NONE
          => (~alert_data.enabled /\ ~HasTimer(0))

\* The handlers that write to the list of alerts.
MutatingOps == {"add", "edit", "toggle", "remove", "fire"}

\* C25: when a handler that writes to the list (add, edit, toggle, remove,
\* the fire of a timer, each with the disabling of a past one-shot that
\* schedule_alert_timer may do on the way) has ended, the list last saved is
\* the list in memory.
C25_SavedAfterMutation ==
  [][last'.op \in MutatingOps => saved' = alerts']_vars

\* The record the list holds at the index of the slot that ran in the step.
Live == At(alerts, last'.index)

\* C26: when the slot of a recurring alert's timer runs more than a day
\* after the instant the timer was set for, the alert is presented once, and
\* its new timer is set for the first occurrence that is not before the
\* present instant: no occurrence that went by meanwhile is made up for.
C26_OverdueNotReplayed ==
  [][(/\ last'.op = "fire"
      /\ last'.pre # << >>
      /\ last'.index \in Indices(alerts)
      /\ Live.enabled
      /\ Live.repeat # REPEAT_OPTION_NONE)
     => (/\ Len(last'.shown) = 1
         /\ ~aborted'
         /\ last'.index \in DOMAIN alert_timers'
         /\ alert_timers'[last'.index].active
         /\ alert_timers'[last'.index].fires_at >= now
         /\ alert_timers'[last'.index].fires_at = calculate_next_trigger(now, Live))]_vars

\* The state schedule_alert_timer leaves when it is called for the alert at
\* index in the present state, at the present instant.
Armed(index) == schedule_alert_timer(Machine, index, now)

\* C27: alert_timers holds one timer per index at most, the one of the last
\* call of schedule_alert_timer for the index, and a second call at the same
\* instant leaves what the first one left: the same timer for the index, the
\* same timers for the others, the same list of alerts.
C27_ArmIdempotent ==
  \A index \in Indices(alerts) :
    /\ schedule_alert_timer(Armed(index), index, now) = Armed(index)
    /\ \A other \in DOMAIN Armed(index).timers :
         other # index => /\ other \in DOMAIN alert_timers
                          /\ Armed(index).timers[other] = alert_timers[other]

\* The user has just enabled an alert that has a timer since: to schedule
\* it once more at this instant changes nothing.
C27_Witness ==
  /\ last.op = "toggle"
  /\ HasTimer(last.index)
  /\ alert_timers[last.index].fires_at > now
  /\ Armed(last.index).timers = alert_timers
  /\ Armed(last.index).alerts = alerts

\* The handlers that write one alert of the list: add, edit, toggle.
SingleAlertOps == {"add", "edit", "toggle"}

\* The alert and the timer of index are after the step what they were before.
Untouched(index) ==
  /\ At(alerts', index) = At(alerts, index)
  /\ (index \in DOMAIN alert_timers') = (index \in DOMAIN alert_timers)
  /\ index \in DOMAIN alert_timers => alert_timers'[index] = alert_timers[index]

\* C28: add, edit and toggle of the alert at an index write that entry of
\* the list and the timer of that index only: every other alert keeps its
\* content and its index, every other timer the instant it is set for, and a
\* toggle leaves every field of its alert but 'enabled' as it was.
C28_SingleAlertFrame ==
  [][last'.op \in SingleAlertOps
     => (/\ \A index \in Indices(alerts) : index # last'.index => Untouched(index)
         /\ Len(alerts') = Len(alerts) + (IF last'.op = "add" THEN 1 ELSE 0)
         /\ DOMAIN alert_timers' \subseteq Indices(alerts')
         /\ last'.op = "toggle" =>
              At(alerts', last'.index) =
                [At(alerts, last'.index) EXCEPT !.enabled = At(alerts', last'.index).enabled])]_vars

\* The user has enabled one of two alerts, which has a timer since; the
\* other one has a timer that is overdue.
C28_Witness ==
  /\ last.op = "toggle"
  /\ Len(alerts) = 2
  /\ HasTimer(last.index)
  /\ At(alerts, last.index).enabled
  /\ \E other \in Indices(alerts) :
       /\ other # last.index
       /\ HasTimer(other)
       /\ alert_timers[other].fires_at < now

\* schedule_alert_timer, called for the alert at index in the present state,
\* gets as far as the computation of the interval.
IntervalComputed(index) ==
  /\ At(alerts, index).enabled
  /\ ValidTime(At(alerts, index))
  /\ calculate_next_trigger(now, At(alerts, index)) # None

\* The timer of index was started in the step.
Installed(index) ==
  /\ index \in DOMAIN alert_timers'
  /\ alert_timers'[index].active
  /\ index \in DOMAIN alert_timers => alert_timers'[index] # alert_timers[index]

\* C29: the interval schedule_alert_timer computes is never negative, so its
\* branch for a negative interval is never taken, and every timer it starts
\* is set for an instant that is not before the instant of the call.
C29_IntervalNeverNegative ==
  /\ [](\A index \in Indices(alerts) :
          IntervalComputed(index) =>
            calculate_next_trigger(now, At(alerts, index)) - now >= 0)
  /\ [][\A index \in DOMAIN alert_timers' :
          Installed(index) => alert_timers'[index].fires_at >= now']_vars

\* A timer set for the very instant of the call: the interval is 0.
C29_Witness ==
  /\ last.op = "toggle"
  /\ HasTimer(last.index)
  /\ alert_timers[last.index].active
  /\ alert_timers[last.index].fires_at = now
  /\ IntervalComputed(last.index)

\* C30: when calculate_next_trigger has returned an instant for an alert, a
\* call for the same alert at any instant from then up to that instant
\* returns the same instant.
C30_StableUntilTrigger ==
  [][(/\ Calculated
      /\ next_trigger # None
      /\ now <= next_trigger
      /\ last'.op = "calculate_next_trigger"
      /\ last'.index = last.index)
     => next_trigger' = next_trigger]_vars

\* The second call for a monthly alert, at an instant so late that the
\* first call cannot have been made then: the instant returned is the same.
C30_Witness ==
  /\ Calculated
  /\ Subject.repeat = REPEAT_OPTION_MONTHLY
  /\ next_trigger # None
  /\ now \notin CalcInstants
  /\ now <= next_trigger
  /\ calculate_next_trigger(now, Subject) = next_trigger


\* C31: the slot of a regular timer, run for an index of the list whose alert
\* is enabled, shows the alert that is at that index of the list then, not
\* the copy the timer was armed with, and disables or reschedules by the
\* repeat mode of the alert of the list.
C31_FireUsesLiveAlert ==
  [][(/\ last'.op = "fire"
      /\ last'.index \in Indices(alerts)
      /\ Live.enabled)
     => (/\ last'.shown = <<Live>>
         /\ Live.repeat = REPEAT_OPTION_NONE =>
              (/\ At(alerts', last'.index) = [Live EXCEPT !.enabled = FALSE]
               /\ last'.index \notin DOMAIN alert_timers')
         /\ Live.repeat # REPEAT_OPTION_NONE =>
              (/\ At(alerts', last'.index) = Live
               /\ last'.index \in DOMAIN alert_timers'
               /\ alert_timers'[last'.index].data = Live))]_vars

\* A one-shot was shown before its own instant, and disabled: the callback
\* was that of a timer armed for another alert, which the one-shot has
\* replaced at the index since.
C31_Witness ==
  /\ last.op = "fire"
  /\ last.index \in Indices(alerts)
  /\ Len(last.shown) = 1
  /\ last.shown[1].repeat = REPEAT_OPTION_NONE
  /\ QDateTime(last.shown[1].date, last.shown[1].time) > now
  /\ At(alerts, last.index) = [last.shown[1] EXCEPT !.enabled = FALSE]

\* The timers delay_alerts has put into temporary_timers in the step.
Snoozed ==
  {timer \in BagToSet(temporary_timers') :
     CopiesIn(timer, temporary_timers') > CopiesIn(timer, temporary_timers)}

\* C32: delay_alerts(minutes) closes every overlay, and every temporary alert
\* it schedules is a 'No Repeat' alert, enabled, with original_alert_index
\* -1, whose timer is set for the present instant plus the minutes, whatever
\* the repeat mode and the 'enabled' flag of the alert that was shown.
C32_DelayedByMinutes ==
  [][last'.op = "delay"
     => (/\ overlays' = EmptyBag
         /\ Snoozed # {}
         /\ \A timer \in Snoozed :
              /\ timer.data.repeat = REPEAT_OPTION_NONE
              /\ timer.data.enabled
              /\ timer.data.original_alert_index = TEMP_INDEX
              /\ timer.fires_at = now + last'.index * SubTicks)]_vars

\* The alert repeats.
Recurring(alert_data) ==
  alert_data.repeat \in {REPEAT_OPTION_DAILY, REPEAT_OPTION_WEEKLY, REPEAT_OPTION_MONTHLY}

\* C33: the date of the instant calculate_next_trigger returns for a Daily,
\* Weekly or Monthly alert with a valid start date is never before that start
\* date, however long before it the call is made.
C33_NotBeforeStartDate ==
  (Calculated /\ Recurring(Subject) /\ ValidDate(Subject) /\ next_trigger # None)
    => DateOf(next_trigger) >= QDateFromString(Subject.date)

\* A trigger returned for a monthly alert in a call made long before its
\* start date.
C33_Witness ==
  /\ Calculated
  /\ Subject.repeat = REPEAT_OPTION_MONTHLY
  /\ ValidDate(Subject)
  /\ next_trigger # None
  /\ QDateFromString(Subject.date) > DateOf(now) + CalcDays
  /\ DateOf(next_trigger) >= QDateFromString(Subject.date)

\* The timer of a repeating, enabled alert of the list fired in the step, and
\* the index has a timer after it.
Rearmed ==
  /\ last'.op = "fire"
  /\ last'.index \in DOMAIN alert_timers
  /\ last'.index \in Indices(alerts)
  /\ Live.enabled
  /\ Recurring(Live)
  /\ last'.index \in DOMAIN alert_timers'

\* C34: the timer schedule_alert_timer starts after the timer of a repeating
\* alert has fired is set for an instant after the one the fired timer was
\* set for, also when the slot runs at that very instant: no occurrence is
\* shown twice.
C34_RearmedStrictlyLater ==
  [][Rearmed =>
       alert_timers'[last'.index].fires_at > alert_timers[last'.index].fires_at]_vars

\* An enabled alert that repeats, with a valid time and a configuration
\* calculate_next_trigger accepts.
ValidRecurring(alert_data) ==
  /\ alert_data.enabled
  /\ ValidTime(alert_data)
  /\ Recurring(alert_data)
  /\ ~ConfigurationError(alert_data)

\* C35: between two handlers, while the program runs, every enabled alert
\* that repeats and has a valid time and configuration has a running timer
\* at its index.
C35_RecurringAlwaysArmed ==
  Alive =>
    \A index \in Indices(alerts) :
      ValidRecurring(At(alerts, index)) =>
        (HasTimer(index) /\ alert_timers[index].active)

\* C36: every key of alert_timers is an index of the list of alerts: no
\* timer is left for an index at or past the length of the list.
C36_TimerKeysAreIndices ==
  \A index \in DOMAIN alert_timers : 0 <= index /\ index < Len(alerts)

\* A row was removed from a list whose last row had a timer; the alert of
\* that row has its timer at its new index, the last one.
C36_Witness ==
  /\ last.op = "remove"
  /\ Len(alerts) >= 2
  /\ Len(Removed.alerts) - 1 \in DOMAIN Removed.timers
  /\ HasTimer(Len(alerts) - 1)
  /\ Len(alerts) \notin DOMAIN alert_timers

\* C37: calculate_next_trigger returns an instant for every Daily, Weekly
\* or Monthly alert with a valid time and configuration, whenever it is
\* called: the 8 days of the Weekly search and the 25 months of the Monthly
\* one always hold an occurrence.
C37_RecurringHasTrigger ==
  (/\ Calculated
   /\ Recurring(Subject)
   /\ ValidTime(Subject)
   /\ ~ConfigurationError(Subject))
    => next_trigger # None

\* The one day of a weekly alert is today and its time has passed: the
\* trigger is on the eighth and last day of the search.
C37_Witness ==
  /\ Calculated
  /\ Subject.repeat = REPEAT_OPTION_WEEKLY
  /\ ValidTime(Subject)
  /\ next_trigger # None
  /\ DateOf(next_trigger) = DateOf(now) + 7

\* C38: the commit of the edit dialog leaves the 'enabled' flag of the alert
\* as the list has it at that moment (but for a one-shot in the past, which
\* schedule_alert_timer disables): an alert that is disabled then, as a
\* one-shot that fired while its dialog was open, is disabled afterwards and
\* has no timer.
C38_EditKeepsLiveEnabled ==
  [][last'.op = "edit"
     => (/\ ~Live.enabled =>
              (/\ ~At(alerts', last'.index).enabled
               /\ last'.index \notin DOMAIN alert_timers')
         /\ (Live.enabled /\ ~PastOneShot(At(alerts', last'.index), now)) =>
              At(alerts', last'.index).enabled)]_vars

\* C39: a timer of temporary_timers does not depend on the alert it was made
\* from: to remove, toggle or edit an alert of the list leaves
\* temporary_timers as it is, and when the timer fires it shows the copy it
\* was created with, whatever the list holds by then.
C39_SnoozeIndependent ==
  [][/\ last'.op \in {"remove", "toggle", "edit"} => temporary_timers' = temporary_timers
     /\ last'.op = "tempfire" =>
          \E timer \in BagToSet(temporary_timers) :
            /\ timer.data.original_alert_index = TEMP_INDEX
            /\ last'.shown = <<timer.data>>]_vars

\* A temporary timer fired and showed a copy of an alert that is no longer
\* in the list.
C39_Witness ==
  /\ last.op = "tempfire"
  /\ Len(last.shown) = 1
  /\ last.shown[1].original_alert_index = TEMP_INDEX
  /\ \A index \in Indices(alerts) : At(alerts, index).text # last.shown[1].text

\* C40: while the program is not quit and the slots of the timers that are
\* due are run, a timer in temporary_timers leads to the fire of a temporary
\* timer, and once delay_alerts is no longer called temporary_timers becomes
\* empty and stays empty.
C40_TemporaryTimersDrain ==
  /\ (temporary_timers # EmptyBag) ~> (last.op \in {"tempfire", "tempfire_raised"})
  /\ <>[](temporary_timers = EmptyBag)

\* The last temporary timer has fired, after the last instant at which a
\* delay could be asked for.
C40_Witness ==
  /\ last.op \in {"tempfire", "tempfire_raised"}
  /\ temporary_timers = EmptyBag
  /\ now > StartNow + MaxTime

====
